---- MODULE Spec2Model ----
(***************************************************************************)
(* Model gateway (src/gateway): the decision pipeline of                   *)
(*   POST /predict/{model_name}/{version}                                  *)
(* bearer authentication, model-version lookup, policy lookup through the  *)
(* per-process policy cache, the fixed-window counter kept in the shared   *)
(* store (Redis INCR / EXPIRE) and the dispatch to the provider.           *)
(*                                                                         *)
(* One request is one asyncio task.  An action is the code a task runs     *)
(* between two suspension points (the awaits on the store and on the       *)
(* upstream HTTP call); the blocking database calls do not suspend.        *)
(***************************************************************************)
EXTENDS Integers, Sequences, FiniteSets, TLC

\* ------------------------------------------------------------------ bounds
NumReq == 1            \* requests of a behaviour of Spec
NumChecks == 3         \* requests of a behaviour of SpecRate
NumInst == 2           \* gateway processes sharing the counter store
MaxClock == 2          \* last second of the modelled time line
MaxIncrLatency == 1    \* seconds an INCR may stay in flight after time.time()
NumLookups == 2        \* requests of a behaviour of SpecCache
CacheSlack == 1        \* seconds SpecCache looks past 0 and past CACHE_TTL
NumCalls == 1          \* requests of a behaviour of SpecUpstream
NumPairs == 2          \* requests of a behaviour of SpecPairs
NumRoll == 3
MaxRollClock == 8
NumLive == 1
MaxNow == 12           \* timestamps retry_after is evaluated on: 0..MaxNow
MaxWindow == 4         \* window lengths retry_after is evaluated on: 1..MaxWindow

\* ------------------------------------------------------ program constants
CACHE_TTL == 300                  \* rate_limiting.py:15
EXPIRE_BUFFER == 5                \* rate_limiting.py:60
ACCESS_TOKEN_EXPIRE_MINUTES == 30 \* auth.py:20

Instances == 1..NumInst

\* ------------------------------------------------------------- Directory
\* The rows of the gateway database the pipeline reads (models.py).  The
\* content is a fixture that holds every kind of permission row the schema
\* admits: allowed with a policy, allowed without one, denied without one
\* (as seeded for "systems"), denied with one, and no row at all.  "ana" is
\* a member of two groups whose rows for gpt-4o-mini/v1 differ.  The column
\* ModelVersion.provider is a free string: mistral-small/v1 carries one that
\* ProviderEnum does not list.  gpt-4o/v1 is routed to OpenAI through a
\* provider account whose api_key is NULL.  ModelNames are the models the
\* requests of Spec ask for.
Users == {"tom", "chatbot-service", "eve", "ana"}

UserGroup ==
    { <<"tom", "devs">>, <<"chatbot-service", "systems">>, <<"eve", "suspended">>,
      <<"ana", "devs">>, <<"ana", "suspended">> }

ProviderEnum == {"openai", "internal"}

ModelNames == {"gpt-4o-mini", "tiny-llama", "mistral-small"}
Versions == {"v1", "v9"}

\* api_key: whether the version's ProviderAccount holds a key.  There is one
\* account per provider (uq_provider_account): the openai one holds a key,
\* the internal one none, and nothing ties a version's provider text to the
\* provider of its account (gpt-4o/v1 is set up on the internal account).
ModelVersion ==
    { [id |-> "gpt-4o-mini/v1", name |-> "gpt-4o-mini", version |-> "v1",
       provider |-> "openai", api_key |-> TRUE],
      [id |-> "tiny-llama/v1", name |-> "tiny-llama", version |-> "v1",
       provider |-> "internal", api_key |-> FALSE],
      [id |-> "mistral-small/v1", name |-> "mistral-small", version |-> "v1",
       provider |-> "mistral", api_key |-> TRUE],
      [id |-> "gpt-4o/v1", name |-> "gpt-4o", version |-> "v1",
       provider |-> "openai", api_key |-> FALSE] }

NoPolicy == [window_seconds |-> 0, max_requests |-> 0]
rl_low == [window_seconds |-> 2, max_requests |-> 1]
rl_med == [window_seconds |-> 2, max_requests |-> 2]

RateLimitPolicy == {rl_low, rl_med}

\* policy = NoPolicy stands for policy_id IS NULL
GroupModelPermission ==
    { [group |-> "devs", mv |-> "gpt-4o-mini/v1", allowed |-> TRUE, policy |-> rl_med],
      [group |-> "devs", mv |-> "tiny-llama/v1", allowed |-> TRUE, policy |-> NoPolicy],
      [group |-> "devs", mv |-> "mistral-small/v1", allowed |-> TRUE, policy |-> rl_med],
      [group |-> "devs", mv |-> "gpt-4o/v1", allowed |-> TRUE, policy |-> rl_med],
      [group |-> "systems", mv |-> "gpt-4o-mini/v1", allowed |-> FALSE, policy |-> NoPolicy],
      [group |-> "systems", mv |-> "tiny-llama/v1", allowed |-> TRUE, policy |-> rl_low],
      [group |-> "suspended", mv |-> "gpt-4o-mini/v1", allowed |-> FALSE, policy |-> rl_low] }

\* the permission rows of the groups a user belongs to, for one model version
PermissionRows(user_id, model_version_id) ==
    { p \in GroupModelPermission :
        /\ p.mv = model_version_id
        /\ <<user_id, p.group>> \in UserGroup }

\* ----------------------------------------------------------- credentials
\* What the bearer header can carry: nothing, a string that is no token
\* signed with SECRET_KEY, or a signed token with its "sub" and "exp".
Subjects == Users \cup {"stranger", "not-a-uuid"}
UuidStrings == Users \cup {"stranger"}

Credentials ==
    { [kind |-> "missing", sub |-> "", exp |-> 0],
      [kind |-> "garbage", sub |-> "", exp |-> 0] }
    \cup { [kind |-> "jwt", sub |-> "tom", exp |-> 0] }
    \cup [kind : {"jwt"}, sub : Subjects, exp : {ACCESS_TOKEN_EXPIRE_MINUTES * 60}]

NoCredential == [kind |-> "none", sub |-> "", exp |-> 0]

\* (the token decoded without the check of "exp")
authenticate_request_NoExpiry(cred, t, dbUp) ==
    IF cred.kind = "missing" THEN [status |-> 401, detail |-> "Not authenticated", id |-> "none"]
    ELSE IF cred.kind = "garbage" THEN [status |-> 401, detail |-> "Could not validate credentials", id |-> "none"]
    ELSE IF cred.sub \notin UuidStrings THEN [status |-> 401, detail |-> "Could not validate credentials", id |-> "none"]
    ELSE IF ~dbUp THEN [status |-> 500, detail |-> "database error", id |-> "none"]
    ELSE IF cred.sub \notin Users THEN [status |-> 401, detail |-> "Could not validate credentials", id |-> "none"]
    ELSE [status |-> 0, detail |-> "", id |-> cred.sub]

\* authenticate_request behind the OAuth2PasswordBearer dependency: the
\* principal id, or the status the request ends with.
authenticate_request(cred, t, dbUp) ==
    IF cred.kind = "missing" THEN [status |-> 401, detail |-> "Not authenticated", id |-> "none"]
    ELSE IF cred.kind = "garbage" THEN [status |-> 401, detail |-> "Could not validate credentials", id |-> "none"]
    ELSE IF cred.exp <= t THEN [status |-> 401, detail |-> "Token expired", id |-> "none"]
    ELSE IF cred.sub \notin UuidStrings THEN [status |-> 401, detail |-> "Could not validate credentials", id |-> "none"]
    ELSE IF ~dbUp THEN [status |-> 500, detail |-> "database error", id |-> "none"]
    ELSE IF cred.sub \notin Users THEN [status |-> 401, detail |-> "Could not validate credentials", id |-> "none"]
    ELSE [status |-> 0, detail |-> "", id |-> cred.sub]

\* ------------------------------------------------------------------ state
VARIABLES
    clock,      \* time.time(), in whole seconds
    req,        \* req[r]: the task of request r, its locals and its position
    cache,      \* cache[i]: _policy_cache of gateway process i
    store,      \* the shared counter store: key -> [val, ttl], ttl -1 = none
    order,      \* history: order[key] = the INCRs the store applied to key, in
                \* the order it applied them: the request and the value replied
    queries     \* history: the calls of _get_policy_from_db, in order: the
                \* process, the arguments, the time and what came back

vars == <<clock, req, cache, store, order, queries>>

\* steps is the history of the calls the request made to its collaborators,
\* log the outcome records the middleware wrote for it
NewRequest ==
    [pc |-> "idle", cred |-> NoCredential, principal |-> "none",
     model_name |-> "", version |-> "", mv |-> "none", policy |-> NoPolicy,
     now |-> 0, count |-> 0, status |-> 0, detail |-> "", retry_after |-> 0,
     output |-> "", steps |-> <<>>, log |-> <<>>]

InitWith(n) ==
    /\ clock = 0
    /\ req = [r \in 1..n |-> NewRequest]
    /\ cache = [i \in Instances |-> <<>>]
    /\ store = <<>>
    /\ order = <<>>
    /\ queries = <<>>

Init == InitWith(NumReq)

\* the request has its final response
Terminal(rec) == rec.pc = "done"

\* the exceptions that are no HTTPException: call_next raises them into the
\* middleware, and the server answers 500
Unhandled ==
    {"database error", "store error", "No rate limit policy found.", "httpx error",
     "response validation error"}

LogRecord(event, principal_id, status_code) ==
    [event |-> event, principal_id |-> principal_id, status_code |-> status_code]

\* (the middleware without its except branch)
middleware_log_NoExcept(rec, status, detail) ==
    IF detail \in Unhandled THEN <<>>
    ELSE <<LogRecord("request_completed", rec.principal, status)>>

\* middleware, lines 74-103: what it logs when call_next has raised or
\* returned; request.state.principal is set once require_principal returned
middleware_log(rec, status, detail) ==
    IF detail \in Unhandled
    THEN <<LogRecord("request_failed", rec.principal, 500)>>
    ELSE <<LogRecord("request_completed", rec.principal, status)>>

\* An HTTPException, or an exception nothing catches (the server answers
\* 500), or the return of infer: the task ends and its locals are gone.
Finish(rec, status, detail) ==
    [rec EXCEPT !.pc = "done", !.status = status, !.detail = detail,
                !.policy = NoPolicy, !.now = 0, !.count = 0,
                !.log = @ \o middleware_log(rec, status, detail)]

Did(rec, step) == [rec EXCEPT !.steps = Append(@, step)]

Made(rec, step) == \E n \in 1..Len(rec.steps) : rec.steps[n] = step

MV(id) == CHOOSE m \in ModelVersion : m.id = id

\* ------------------------------------------------------- require_principal
\* A request arrives and its bearer credential is resolved.  Requests are
\* started in the order of their numbers.
Authenticate(r, cred, dbUp) ==
    /\ req[r].pc = "idle"
    /\ r > 1 => req[r - 1].pc # "idle"
    /\ LET a == authenticate_request(cred, clock, dbUp)
           rec == [req[r] EXCEPT !.cred = cred]
       IN req' = [req EXCEPT ![r] =
                    IF a.status # 0 THEN Finish(rec, a.status, a.detail)
                    ELSE [rec EXCEPT !.pc = "authed", !.principal = a.id]]
    /\ UNCHANGED <<clock, cache, store, order, queries>>

\* ------------------------------------------------- infer, lines 135-148
\* (the filter on the version left out)
find_model_version_AnyVersion(model_name, version) ==
    { m \in ModelVersion : m.name = model_name }

\* the model versions with this version string whose model has this name
find_model_version(model_name, version) ==
    { m \in ModelVersion : m.name = model_name /\ m.version = version }

\* ------------------------------------------------------ _get_policy_from_db
\* RateLimitPolicy JOIN GroupModelPermission ON policy_id JOIN UserGroup,
\* filtered by user and model version: the policies of the rows that have
\* one.  The column "allowed" is not part of the query.  first() takes one
\* row of the result, and the query states no order.
PoliciesJoined(user_id, model_version_id) ==
    { p.policy : p \in { q \in PermissionRows(user_id, model_version_id) : q.policy # NoPolicy } }

\* ---------------------------------------------------------------- counters
\* line 53
bucket(now, window_seconds) == now \div window_seconds

\* line 54; the ids are UUIDs in their text form, the fields of the key are
\* kept apart
\* (the key built without the window index: one counter for all time)
redis_key_NoWindow(user_id, model_version_id, b) == <<user_id, model_version_id, 0>>

\* (the key built without the model version: one counter per caller)
redis_key_NoModel(user_id, model_version_id, b) == <<user_id, "any", b>>

redis_key(user_id, model_version_id, b) == <<user_id, model_version_id, b>>

KeyOf(rec) == redis_key(rec.principal, rec.mv, bucket(rec.now, rec.policy.window_seconds))

\* (the expiry set by every check)
first_in_window_Always(count) == TRUE

\* line 59
first_in_window(count) == count = 1

\* (the buffer taken from the window in place of added to it)
expire_seconds_Short(window_seconds) == window_seconds - 1

\* line 60
expire_seconds(window_seconds) == window_seconds + EXPIRE_BUFFER

\* INCR: one atomic command; an absent key counts from 0 and gets no expiry
IncrValue(key) == IF key \in DOMAIN store THEN store[key].val + 1 ELSE 1

\* (a read followed by a write in place of INCR: the write of a second
\* check puts back the value the first one wrote)
StoreAfterIncr_LostUpdate(key) ==
    IF key \in DOMAIN store THEN store
    ELSE [k \in DOMAIN store \cup {key} |->
            IF k = key THEN [val |-> 1, ttl |-> -1] ELSE store[k]]

StoreAfterIncr(key) ==
    [k \in DOMAIN store \cup {key} |->
        IF k = key
        THEN [val |-> IncrValue(key),
              ttl |-> IF key \in DOMAIN store THEN store[key].ttl ELSE -1]
        ELSE store[k]]

\* (SET key 0 EX seconds in place of EXPIRE: the counter starts over)
StoreAfterExpire_Reset(key, seconds) ==
    [k \in DOMAIN store |->
        IF k = key THEN [val |-> 0, ttl |-> clock + seconds] ELSE store[k]]

\* EXPIRE key seconds: no effect on an absent key
StoreAfterExpire(key, seconds) ==
    [k \in DOMAIN store |->
        IF k = key THEN [store[k] EXCEPT !.ttl = clock + seconds] ELSE store[k]]

\* ------------------------------------------- enforce_rate_limit, lines 62-68
\* (the comparison off by one)
RateLimited_OffByOne(count, max_requests) == count >= max_requests

RateLimited(count, max_requests) == count > max_requests

\* (the seconds gone of the window in place of those left)
retry_after_Elapsed(now, window_seconds) == now % window_seconds

retry_after(now, window_seconds) == window_seconds - (now % window_seconds)

\* ------------------------------------------------- infer, lines 157-165
\* (call_openai awaiting, without a timeout, an upstream that never answers)
Dispatch_NoTimeout(rec) ==
    IF MV(rec.mv).provider = "openai"
    THEN [Did(rec, "call_openai") EXCEPT !.pc = "waiting"]
    ELSE Finish(rec, 400, "Unsupported provider")

\* the choice of the provider, up to the HTTP request call_openai sends
Dispatch(rec) ==
    IF MV(rec.mv).provider = "openai"
    THEN IF ~MV(rec.mv).api_key
         THEN Finish(rec, 500, "ProviderAccount.api_key is missing for OpenAI")
         ELSE [Did(rec, "call_openai") EXCEPT !.pc = "upstream"]
    ELSE Finish(rec, 400, "Unsupported provider")

\* (the HTTPException built and not raised)
AfterRateLimit_NoRaise(rec) == Dispatch(rec)

\* What follows the store's answers without a suspension: the 429 raised by
\* enforce_rate_limit, or its return to infer and the dispatch.
AfterRateLimit(rec) ==
    IF RateLimited(rec.count, rec.policy.max_requests)
    THEN [Finish(rec, 429, "Rate limit exceeded") EXCEPT
            !.retry_after = retry_after(rec.now, rec.policy.window_seconds)]
    ELSE Dispatch(rec)

\* No handler catches what the database session or the store client raises:
\* the exception leaves infer and the server answers 500.
OnDirectoryError(rec) == Finish(rec, 500, "database error")

\* (the store's exception caught and the check passed: fail open)
OnStoreError_FailOpen(rec) == AfterRateLimit(rec)

OnStoreError(rec) == Finish(rec, 500, "store error")

\* --------------------------------------- infer, lines 134-155, to the INCR
\* The model-version lookup, get_policy_cached and lines 49-54 of
\* enforce_rate_limit run without a suspension.  db tells which database
\* call, if any, finds the database unreachable, and i the gateway process
\* that serves the request; the processes that have cached nothing yet are
\* alike, and the first of them is taken.
DbOutcomes == {"up", "model_lookup_fails", "policy_lookup_fails"}

\* (an entry served without a look at its expires-at)
CacheHit_NoExpiry(i, key, now) == key \in DOMAIN cache[i]

\* (an entry served in the second of its expires-at)
CacheHit_AtExpiry(i, key, now) == key \in DOMAIN cache[i] /\ cache[i][key].exp >= now

CacheHit(i, key, now) == key \in DOMAIN cache[i] /\ cache[i][key].exp > now

CachePut(i, key, entry) ==
    [cache EXCEPT ![i] = [k \in DOMAIN cache[i] \cup {key} |->
                            IF k = key THEN entry ELSE cache[i][k]]]

Query(i, user_id, model_version_id, result, policy) ==
    [inst |-> i, user |-> user_id, mv |-> model_version_id, at |-> clock,
     result |-> result, policy |-> policy]

Infer(r, i, model_name, version, db) ==
    /\ req[r].pc = "authed"
    /\ \A j \in Instances : j < i /\ cache[j] = <<>> => cache[i] # <<>>
    /\ LET rec0 == Did([req[r] EXCEPT !.model_name = model_name, !.version = version],
                       "find_model_version")
           found == find_model_version(model_name, version)
       IN IF db = "model_lookup_fails"
          THEN /\ req' = [req EXCEPT ![r] =
                            OnDirectoryError(Did(rec0, "find_model_version:error"))]
               /\ UNCHANGED <<cache, queries>>
          ELSE IF found = {}
          THEN /\ req' = [req EXCEPT ![r] = Finish(rec0, 404, "Unknown model/version")]
               /\ UNCHANGED <<cache, queries>>
          ELSE LET mv == CHOOSE m \in found : TRUE
                   key == <<req[r].principal, mv.id>>
                   rec1 == [rec0 EXCEPT !.mv = mv.id, !.now = clock]
               IN IF CacheHit(i, key, clock)
                  THEN /\ req' = [req EXCEPT ![r] =
                                    [rec1 EXCEPT !.pc = "incr", !.policy = cache[i][key].policy]]
                       /\ UNCHANGED <<cache, queries>>
                  ELSE LET rec2 == rec1
                           joined == PoliciesJoined(req[r].principal, mv.id)
                       IN IF db = "policy_lookup_fails"
                          THEN /\ req' = [req EXCEPT ![r] =
                                            OnDirectoryError(Did(rec2, "find_permission:error"))]
                               /\ queries' = Append(queries,
                                                Query(i, key[1], key[2], "error", NoPolicy))
                               /\ UNCHANGED cache
                          ELSE IF joined = {}
                          THEN /\ req' = [req EXCEPT ![r] =
                                            Finish(rec2, 500, "No rate limit policy found.")]
                               /\ queries' = Append(queries,
                                                Query(i, key[1], key[2], "none", NoPolicy))
                               /\ UNCHANGED cache
                          ELSE \E policy \in joined :
                                 /\ req' = [req EXCEPT ![r] =
                                              [rec2 EXCEPT !.pc = "incr", !.policy = policy]]
                                 /\ queries' = Append(queries,
                                                  Query(i, key[1], key[2], "policy", policy))
                                 /\ cache' = CachePut(i, key,
                                                [exp |-> clock + CACHE_TTL, policy |-> policy])
    /\ UNCHANGED <<clock, store, order>>

\* ------------------------------------- enforce_rate_limit, line 57: INCR
\* The store applies the increment and answers ("ok"), or the command fails
\* before the store applied it ("lost") or after ("unanswered").
IncrOutcomes == {"ok", "lost", "unanswered"}

Incr(r, res) ==
    /\ req[r].pc = "incr"
    /\ LET key == KeyOf(req[r])
           rec == Did(req[r], "incr")
       IN IF res = "lost"
          THEN /\ req' = [req EXCEPT ![r] = OnStoreError(Did(rec, "incr:error"))]
               /\ UNCHANGED <<store, order>>
          ELSE /\ store' = StoreAfterIncr(key)
               /\ order' = [k \in DOMAIN order \cup {key} |->
                              IF k = key
                              THEN Append(IF key \in DOMAIN order THEN order[key] ELSE <<>>,
                                          [r |-> r, val |-> IncrValue(key),
                                           w |-> bucket(req[r].now,
                                                        req[r].policy.window_seconds)])
                              ELSE order[k]]
               /\ req' = [req EXCEPT ![r] =
                            IF res = "unanswered" THEN OnStoreError(Did(rec, "incr:error"))
                            ELSE LET counted == [rec EXCEPT !.count = IncrValue(key)]
                                 IN IF first_in_window(counted.count)
                                    THEN [counted EXCEPT !.pc = "expire"]
                                    ELSE AfterRateLimit(counted)]
    /\ UNCHANGED <<clock, cache, queries>>

\* ----------------------------------- enforce_rate_limit, line 60: EXPIRE
ExpireOutcomes == {"ok", "lost"}

Expire(r, res) ==
    /\ req[r].pc = "expire"
    /\ LET key == KeyOf(req[r])
           rec == Did(req[r], "expire")
       IN IF res = "lost"
          THEN /\ req' = [req EXCEPT ![r] = OnStoreError(Did(rec, "expire:error"))]
               /\ UNCHANGED store
          ELSE /\ store' = StoreAfterExpire(key, expire_seconds(req[r].policy.window_seconds))
               /\ req' = [req EXCEPT ![r] = AfterRateLimit(rec)]
    /\ UNCHANGED <<clock, cache, order, queries>>

\* ------------------------------------------ call_openai, lines 22-37
\* What client.post comes back with: an httpx exception (no connection, or
\* the 60 s timeout), or a response with a status code and a body.  A body
\* is text that is no JSON ("invalid") or a JSON value: t is its type, and
\* it carries s (string), items (array) or v (object, keys to values).
Null == [t |-> "null"]
Str(s) == [t |-> "string", s |-> s]
Arr(items) == [t |-> "array", items |-> items]
Obj(v) == [t |-> "object", v |-> v]

OutputText(text) == Obj([type |-> Str("output_text"), text |-> text])
Message(content) == Obj([type |-> Str("message"), content |-> content])

Bodies ==
    << [t |-> "invalid"],
       Null,
       Arr(<<>>),
       Obj([error |-> Str("quota")]),
       Obj([output |-> Null]),
       Obj([output |-> Arr(<<>>)]),
       Obj([output |-> Str("hi")]),
       Obj([output |-> Arr(<<Str("hi")>>)]),
       Obj([output |-> Arr(<<Obj([type |-> Str("reasoning")])>>)]),
       Obj([output |-> Arr(<<Message(Null)>>)]),
       Obj([output |-> Arr(<<Message(Arr(<<Str("hi")>>))>>)]),
       Obj([output |-> Arr(<<Message(Arr(<<Obj([type |-> Str("refusal")])>>))>>)]),
       Obj([output |-> Arr(<<Message(Arr(<<OutputText(Null)>>))>>)]),
       Obj([output |-> Arr(<<Message(Arr(<<OutputText(Str(""))>>))>>)]),
       Obj([output |-> Arr(<<Message(Arr(<<OutputText(Str("hi"))>>))>>)]),
       Obj([output |-> Arr(<<Obj([type |-> Str("reasoning")]),
                             Message(Arr(<<Obj([type |-> Str("refusal")]),
                                           OutputText(Str("hi"))>>)),
                             Str("tail")>>)]) >>

StatusCodes == {200, 302, 404, 503}

UpstreamResponses ==
    [transport : {"connect_error", "timeout"}, status_code : {0}, body : {1}]
    \cup [transport : {"ok"}, status_code : StatusCodes, body : DOMAIN Bodies]

\* dict.get(key, default); only a dict has the method
HasGet(j) == j.t = "object"

get(j, key, default) == IF key \in DOMAIN j.v THEN j.v[key] ELSE default

\* what a for loop runs over: the items of a list, the characters of a
\* string (a string stands for each), the keys of a dict; nothing else can
\* be iterated
Iterable(j) == j.t \in {"array", "string", "object"}

Iter(j) ==
    CASE j.t = "array" -> j.items
      [] j.t = "string" -> IF j.s = "" THEN <<>> ELSE <<Str("c")>>
      [] j.t = "object" -> IF DOMAIN j.v = {} THEN <<>> ELSE <<Str("key")>>

IsText(j, s) == j.t = "string" /\ j.s = s

\* lines 33-35: the loop over the content of one output item, from the
\* n-th: the text returned, an exception, or the end of the loop
RECURSIVE content_loop(_, _)
content_loop(cs, n) ==
    IF n > Len(cs) THEN [kind |-> "end", text |-> ""]
    ELSE IF ~HasGet(cs[n]) THEN [kind |-> "raise", text |-> ""]
    ELSE IF /\ IsText(get(cs[n], "type", Null), "output_text")
            /\ get(cs[n], "text", Null).t = "string"
         THEN [kind |-> "return", text |-> get(cs[n], "text", Null).s]
         ELSE content_loop(cs, n + 1)

\* lines 32-35: the loop over the output items, from the n-th
RECURSIVE output_loop(_, _)
output_loop(items, n) ==
    IF n > Len(items) THEN [kind |-> "end", text |-> ""]
    ELSE IF ~HasGet(items[n]) THEN [kind |-> "raise", text |-> ""]
    ELSE LET content == get(items[n], "content", Arr(<<>>))
         IN IF ~Iterable(content) THEN [kind |-> "raise", text |-> ""]
            ELSE LET c == content_loop(Iter(content), 1)
                 IN IF c.kind = "end" THEN output_loop(items, n + 1) ELSE c

\* lines 31-37 on the decoded body
parse_output(data) ==
    IF ~HasGet(data) THEN [kind |-> "raise", text |-> ""]
    ELSE LET output == get(data, "output", Arr(<<>>))
         IN IF ~Iterable(output) THEN [kind |-> "raise", text |-> ""]
            ELSE output_loop(Iter(output), 1)

\* What call_openai ends with, from the answer of client.post on, and what
\* infer makes of it: an httpx exception is not caught; a function that
\* falls off its end returns None, which PredictResponse(output=None)
\* rejects with an exception of its own.
Outcome(status, detail, output) == [status |-> status, detail |-> detail, output |-> output]

openai_outcome(resp) ==
    IF resp.transport # "ok" THEN Outcome(500, "httpx error", "")
    ELSE IF resp.status_code >= 400 THEN Outcome(502, "OpenAI error", "")
    ELSE IF Bodies[resp.body].t = "invalid" THEN Outcome(502, "Invalid JSON from OpenAI", "")
    ELSE LET res == parse_output(Bodies[resp.body])
         IN CASE res.kind = "raise" -> Outcome(502, "Invalid response from OpenAI", "")
              [] res.kind = "end" -> Outcome(500, "response validation error", "")
              [] res.kind = "return" -> Outcome(200, "", res.text)

\* (a call that failed sent a second time)
call_openai_Retry(rec, resp) ==
    IF /\ openai_outcome(resp).status # 200
       /\ Cardinality({ n \in 1..Len(rec.steps) : rec.steps[n] = "call_openai" }) < 2
    THEN [Did(rec, "call_openai") EXCEPT !.pc = "upstream"]
    ELSE [Finish(rec, openai_outcome(resp).status, openai_outcome(resp).detail)
            EXCEPT !.output = openai_outcome(resp).output]

\* one call of client.post, and the request ends with its outcome
call_openai(rec, resp) ==
    [Finish(rec, openai_outcome(resp).status, openai_outcome(resp).detail)
        EXCEPT !.output = openai_outcome(resp).output]

\* history: how the upstream call ended
UpstreamOutcome(resp) ==
    CASE resp.transport = "connect_error" -> "upstream:connect_error"
      [] resp.transport = "timeout" -> "upstream:timeout"
      [] resp.status_code < 300 -> "upstream:2xx"
      [] resp.status_code < 400 -> "upstream:3xx"
      [] resp.status_code < 500 -> "upstream:4xx"
      [] OTHER -> "upstream:5xx"

\* (one client shared by the calls and serving them one at a time: a call
\* waits for the calls sent before it)
Upstream_OneAtATime(r, resp) ==
    /\ req[r].pc = "upstream"
    /\ \A q \in 1..(r - 1) : req[q].pc # "upstream"
    /\ req' = [req EXCEPT ![r] = call_openai(Did(req[r], UpstreamOutcome(resp)), resp)]
    /\ UNCHANGED <<clock, cache, store, order, queries>>

\* (the unit of quota given back when the upstream call fails: a DECR of
\* the request's key)
Upstream_Refund(r, resp) ==
    /\ req[r].pc = "upstream"
    /\ req' = [req EXCEPT ![r] = call_openai(Did(req[r], UpstreamOutcome(resp)), resp)]
    /\ store' = IF openai_outcome(resp).status # 200 /\ KeyOf(req[r]) \in DOMAIN store
                THEN [store EXCEPT ![KeyOf(req[r])].val = @ - 1]
                ELSE store
    /\ UNCHANGED <<clock, cache, order, queries>>

\* Each call opens its own httpx.AsyncClient (line 22) and awaits the post:
\* the calls of concurrent requests end in any order.
Upstream(r, resp) ==
    /\ req[r].pc = "upstream"
    /\ req' = [req EXCEPT ![r] = call_openai(Did(req[r], UpstreamOutcome(resp)), resp)]
    /\ UNCHANGED <<clock, cache, store, order, queries>>

\* ------------------------------------------------------------------- time
\* A second passes.  The store drops the keys whose expiry is reached; an
\* INCR in flight reaches the store within MaxIncrLatency.
Tick ==
    /\ clock < MaxClock
    /\ \A r \in DOMAIN req : req[r].pc = "incr" => clock + 1 - req[r].now <= MaxIncrLatency
    /\ clock' = clock + 1
    /\ store' = [k \in { j \in DOMAIN store : store[j].ttl = -1 \/ store[j].ttl > clock + 1 }
                   |-> store[k]]
    /\ UNCHANGED <<req, cache, order, queries>>

\* No request arrives before time t: the clock moves on to t (as Tick does,
\* second by second).
Elapse(t) ==
    /\ t > clock
    /\ \A r \in DOMAIN req : req[r].pc = "incr" => t - req[r].now <= MaxIncrLatency
    /\ clock' = t
    /\ store' = [k \in { j \in DOMAIN store : store[j].ttl = -1 \/ store[j].ttl > t }
                   |-> store[k]]
    /\ UNCHANGED <<req, cache, order, queries>>

\* --------------------------------------------------------- specifications
Response(transport, status_code, body) ==
    [transport |-> transport, status_code |-> status_code, body |-> body]

\* one upstream answer of each kind call_openai tells apart
SpecResponses ==
    { Response("connect_error", 0, 1), Response("ok", 503, 1), Response("ok", 200, 1),
      Response("ok", 200, 3), Response("ok", 200, 4), Response("ok", 200, 15) }

GoodResponse == Response("ok", 200, 15)

Next ==
    \/ \E r \in DOMAIN req, cred \in Credentials, dbUp \in BOOLEAN :
          Authenticate(r, cred, dbUp)
    \/ \E r \in DOMAIN req, i \in Instances, model_name \in ModelNames, version \in Versions,
          db \in DbOutcomes :
          Infer(r, i, model_name, version, db)
    \/ \E r \in DOMAIN req, res \in IncrOutcomes : Incr(r, res)
    \/ \E r \in DOMAIN req, res \in ExpireOutcomes : Expire(r, res)
    \/ \E r \in DOMAIN req, resp \in SpecResponses : Upstream(r, resp)
    \/ Tick

\* every request, every credential, every failure of a collaborator
Spec == Init /\ [][Next]_vars

\* The rate limiter under load: NumChecks requests of "tom" for
\* gpt-4o-mini/v1, the database and the store up.
RateCredentials ==
    [kind : {"jwt"}, sub : {"tom"}, exp : {ACCESS_TOKEN_EXPIRE_MINUTES * 60}]

InitRate == InitWith(NumChecks)

NextRate ==
    \/ \E r \in DOMAIN req, cred \in RateCredentials : Authenticate(r, cred, TRUE)
    \/ \E r \in DOMAIN req, i \in Instances : Infer(r, i, "gpt-4o-mini", "v1", "up")
    \/ \E r \in DOMAIN req : Incr(r, "ok")
    \/ \E r \in DOMAIN req : Expire(r, "ok")
    \/ \E r \in DOMAIN req : Upstream(r, GoodResponse)
    \/ Tick

SpecRate == InitRate /\ [][NextRate]_vars

\* The policy cache over its time to live: NumLookups requests for
\* gpt-4o-mini/v1 of "ana" (two groups, two policies) and of
\* "chatbot-service" (no policy), at the times around 0 and around
\* CACHE_TTL, each sent when the one before it has its response.
CacheCredentials ==
    [kind : {"jwt"}, sub : {"ana", "chatbot-service"}, exp : {ACCESS_TOKEN_EXPIRE_MINUTES * 60}]

CacheTimes == (0..CacheSlack) \cup ((CACHE_TTL - 1)..(CACHE_TTL + CacheSlack))

InitCache == InitWith(NumLookups)

NextCache ==
    \/ \E r \in DOMAIN req, cred \in CacheCredentials :
          /\ \A q \in 1..(r - 1) : Terminal(req[q])
          /\ Authenticate(r, cred, TRUE)
    \/ \E r \in DOMAIN req, i \in Instances, db \in {"up", "policy_lookup_fails"} :
          Infer(r, i, "gpt-4o-mini", "v1", db)
    \/ \E r \in DOMAIN req : Incr(r, "ok")
    \/ \E r \in DOMAIN req : Expire(r, "ok")
    \/ \E r \in DOMAIN req : Upstream(r, GoodResponse)
    \/ \E t \in CacheTimes : Elapse(t)

SpecCache == InitCache /\ [][NextCache]_vars

\* The provider dispatch: NumCalls requests of "tom", the database and the
\* store up, every model version and every upstream answer.
InitUpstream == InitWith(NumCalls)

UpstreamModels == ModelNames \cup {"gpt-4o"}

NextUpstream ==
    \/ \E r \in DOMAIN req, cred \in RateCredentials : Authenticate(r, cred, TRUE)
    \/ \E r \in DOMAIN req, i \in Instances, model_name \in UpstreamModels :
          Infer(r, i, model_name, "v1", "up")
    \/ \E r \in DOMAIN req : Incr(r, "ok")
    \/ \E r \in DOMAIN req : Expire(r, "ok")
    \/ \E r \in DOMAIN req, resp \in UpstreamResponses : Upstream(r, resp)
    \/ Tick

SpecUpstream == InitUpstream /\ [][NextUpstream]_vars

\* Callers side by side: NumPairs concurrent requests of "tom" and "ana"
\* for gpt-4o-mini/v1 and mistral-small/v1 within one second, served by one
\* gateway process, the database and the store up, the upstream answering,
\* failing or timing out.
PairCredentials ==
    [kind : {"jwt"}, sub : {"tom", "ana"}, exp : {ACCESS_TOKEN_EXPIRE_MINUTES * 60}]

PairResponses == {Response("timeout", 0, 1), Response("ok", 503, 1), GoodResponse}

InitPairs == InitWith(NumPairs)

NextPairs ==
    \/ \E r \in DOMAIN req, cred \in PairCredentials : Authenticate(r, cred, TRUE)
    \/ \E r \in DOMAIN req, model_name \in {"gpt-4o-mini", "mistral-small"} :
          Infer(r, 1, model_name, "v1", "up")
    \/ \E r \in DOMAIN req : Incr(r, "ok")
    \/ \E r \in DOMAIN req : Expire(r, "ok")
    \/ \E r \in DOMAIN req, resp \in PairResponses : Upstream(r, resp)

SpecPairs == InitPairs /\ [][NextPairs]_vars

\* Windows rolling over: NumRoll requests of "tom" for gpt-4o-mini/v1
\* (window_seconds 2, max_requests 2) over the seconds 0..MaxRollClock,
\* long enough for a counter of window 0 to expire (at 7 or later) and for
\* checks two windows on, each request sent to one gateway process when the
\* one before it has its response; the EXPIRE of a check reaches the store
\* or is lost (the process stopped, or the connection failed, after the
\* INCR).
RollTimes == 1..MaxRollClock

InitRoll == InitWith(NumRoll)

NextRoll ==
    \/ \E r \in DOMAIN req, cred \in RateCredentials :
          /\ \A q \in 1..(r - 1) : Terminal(req[q])
          /\ Authenticate(r, cred, TRUE)
    \/ \E r \in DOMAIN req : Infer(r, 1, "gpt-4o-mini", "v1", "up")
    \/ \E r \in DOMAIN req : Incr(r, "ok")
    \/ \E r \in DOMAIN req, res \in ExpireOutcomes : Expire(r, res)
    \/ \E r \in DOMAIN req : Upstream(r, GoodResponse)
    \/ \E t \in RollTimes : Elapse(t)

SpecRoll == InitRoll /\ [][NextRoll]_vars

\* Progress: NumLive requests with every credential and every failure of a
\* collaborator, as in Spec.  The event loop runs every coroutine that can
\* go on, and every awaited call (database, store, upstream within its
\* 60 s timeout) returns or raises: the next step of a request that has one
\* is taken in the end.
LiveStep(r) ==
    \/ \E cred \in Credentials, dbUp \in BOOLEAN : Authenticate(r, cred, dbUp)
    \/ \E i \in Instances, model_name \in ModelNames, version \in Versions,
          db \in DbOutcomes :
          Infer(r, i, model_name, version, db)
    \/ \E res \in IncrOutcomes : Incr(r, res)
    \/ \E res \in ExpireOutcomes : Expire(r, res)
    \/ \E resp \in SpecResponses : Upstream(r, resp)

InitLive == InitWith(NumLive)

NextLive ==
    \/ \E r \in DOMAIN req, cred \in Credentials, dbUp \in BOOLEAN :
          Authenticate(r, cred, dbUp)
    \/ \E r \in DOMAIN req, i \in Instances, model_name \in ModelNames, version \in Versions,
          db \in DbOutcomes :
          Infer(r, i, model_name, version, db)
    \/ \E r \in DOMAIN req, res \in IncrOutcomes : Incr(r, res)
    \/ \E r \in DOMAIN req, res \in ExpireOutcomes : Expire(r, res)
    \/ \E r \in DOMAIN req, resp \in SpecResponses : Upstream(r, resp)

SpecLive == InitLive /\ [][NextLive]_vars /\ \A r \in 1..NumLive : WF_vars(LiveStep(r))

\* ================================================================ claims
\* The INCRs applied to a key, as requests and as decisions.
Applied(k) == { order[k][p].r : p \in 1..Len(order[k]) }

StoreFailed(rec) == Made(rec, "incr:error") \/ Made(rec, "expire:error")

DirectoryFailed(rec) ==
    Made(rec, "find_model_version:error") \/ Made(rec, "find_permission:error")

\* enforce_rate_limit has returned or raised its 429
RateDecided(rec) == rec.pc \in {"upstream", "done"} /\ ~StoreFailed(rec)

RateAllowed(rec) == RateDecided(rec) /\ rec.status # 429

\* the limits the Directory holds for the pair a key belongs to
MaxRequestsOf(k) ==
    { p.policy.max_requests :
        p \in { q \in PermissionRows(k[1], k[2]) : q.policy # NoPolicy } }

Min(a, b) == IF a < b THEN a ELSE b

\* C1: of the checks of one (principal, model version) whose timestamps
\* fall in one window, taken in the order in which the store applied their
\* increments, a check that got its decision is allowed exactly when it is
\* among the first N, N the max_requests of the pair's policy: the first N
\* are allowed and the (N+1)th is denied.
C1_FirstNAllowed ==
    \A k \in DOMAIN order : \A p \in 1..Len(order[k]) : \A n \in MaxRequestsOf(k) :
        RateDecided(req[order[k][p].r]) =>
            (RateAllowed(req[order[k][p].r]) <=> p <= n)

\* N + 1 checks of one window have their decision: N allowed, then one denied
C1_Witness ==
    \E k \in DOMAIN order : \E n \in MaxRequestsOf(k) :
        /\ n >= 1
        /\ Len(order[k]) > n
        /\ \A p \in 1..n : RateAllowed(req[order[k][p].r])
        /\ RateDecided(req[order[k][n + 1].r])
        /\ req[order[k][n + 1].r].status = 429

\* C2: in every interleaving of the checks of one window key, from any of
\* the gateway processes, the store replies a different post-increment
\* value to each check (the p-th increment applied gets p), never more than
\* N checks are allowed, and once the K checks have their decisions exactly
\* min(K, N) of them are allowed.
C2_AtomicIncrement ==
    \A k \in DOMAIN order : \A n \in MaxRequestsOf(k) :
        LET allowed == { r \in Applied(k) : RateAllowed(req[r]) }
        IN /\ \A p \in 1..Len(order[k]) : order[k][p].val = p
           /\ Cardinality(Applied(k)) = Len(order[k])
           /\ Cardinality(allowed) <= n
           /\ (\A r \in Applied(k) : RateDecided(req[r]))
                 => Cardinality(allowed) = Min(Len(order[k]), n)

\* more checks than N on one key, served by two gateway processes, a later
\* request's increment applied before an earlier request's, all decided
C2_Witness ==
    \E k \in DOMAIN order : \E n \in MaxRequestsOf(k) :
        /\ Len(order[k]) > n
        /\ \A r \in Applied(k) : RateDecided(req[r])
        /\ Applied(k) = DOMAIN req
        /\ cache[1] # <<>> /\ cache[2] # <<>>
        /\ \E p, q \in 1..Len(order[k]) : p < q /\ order[k][p].r > order[k][q].r

\* the permission rows the Directory holds for the request's principal and
\* the model version its path resolved to
RowsOf(rec) == PermissionRows(rec.principal, rec.mv)

Resolved(rec) == rec.mv # "none"

\* C3: a request of a principal whose group has a row with allowed = false
\* for the model version is never sent to a provider and, unless the
\* database or the store failed under it, ends with 403, with or without a
\* policy on the row.
C3_DenyRowForbidden ==
    \A r \in DOMAIN req :
        (Resolved(req[r]) /\ \E p \in RowsOf(req[r]) : ~p.allowed) =>
            /\ ~Made(req[r], "call_openai")
            /\ (Terminal(req[r]) /\ ~DirectoryFailed(req[r]) /\ ~StoreFailed(req[r]))
                   => req[r].status = 403

\* C4: a request of a principal none of whose groups has a row for the
\* resolved model version ends with 403, unless the database failed.
C4_NoRowForbidden ==
    \A r \in DOMAIN req :
        (Resolved(req[r]) /\ RowsOf(req[r]) = {} /\ ~DirectoryFailed(req[r])) =>
            (Terminal(req[r]) /\ req[r].status = 403)

\* the request went past enforce_rate_limit, to the choice of the provider
ReachedDispatch(rec) ==
    \/ Made(rec, "call_openai")
    \/ Terminal(rec) /\ rec.detail \in {"Unsupported provider",
                                        "ProviderAccount.api_key is missing for OpenAI"}

\* C5: a request of a principal whose row for the model version has
\* allowed = true and no policy passes the rate-limit step: it ends, unless
\* the database failed, past enforce_rate_limit.
C5_NoPolicyUnlimited ==
    \A r \in DOMAIN req :
        ( /\ Resolved(req[r])
          /\ RowsOf(req[r]) # {}
          /\ \A p \in RowsOf(req[r]) : p.allowed /\ p.policy = NoPolicy
          /\ Terminal(req[r])
          /\ ~DirectoryFailed(req[r]) ) => ReachedDispatch(req[r])

\* the policy lookup in the Directory, or the store's INCR or EXPIRE, failed
DependencyFailed(rec) == Made(rec, "find_permission:error") \/ StoreFailed(rec)

\* C6: a request under which the policy lookup or a store command failed
\* has ended, was never sent to a provider and carries no success status.
C6_FailClosed ==
    \A r \in DOMAIN req :
        DependencyFailed(req[r]) =>
            /\ Terminal(req[r])
            /\ ~Made(req[r], "call_openai")
            /\ req[r].status >= 400

\* an EXPIRE failed after the INCR had counted the request, and the request
\* ended without a provider call
C6_Witness ==
    \E r \in DOMAIN req :
        /\ Made(req[r], "expire:error")
        /\ \E k \in DOMAIN order : r \in Applied(k)
        /\ Terminal(req[r])

\* C7: a request under which the policy lookup or a store command failed
\* ends with 503.
C7_DependencyUnavailable503 ==
    \A r \in DOMAIN req :
        (DependencyFailed(req[r]) /\ Terminal(req[r])) => req[r].status = 503

\* C8: a request whose (model name, version) the Directory does not hold
\* ends with 404 right after the lookup: it made no other call, the store
\* applied no INCR of it and no provider was called.
C8_UnknownModelNotFound ==
    \A r \in DOMAIN req :
        ( /\ Made(req[r], "find_model_version")
          /\ ~Made(req[r], "find_model_version:error")
          /\ ~\E m \in ModelVersion :
                m.name = req[r].model_name /\ m.version = req[r].version ) =>
            /\ Terminal(req[r])
            /\ req[r].status = 404
            /\ req[r].steps = <<"find_model_version">>
            /\ \A k \in DOMAIN order : r \notin Applied(k)

\* a request for an unknown version of a known model has ended with 404
C8_Witness ==
    \E r \in DOMAIN req :
        /\ req[r].status = 404
        /\ req[r].model_name \in { m.name : m \in ModelVersion }
        /\ req[r].principal # "none"

\* the header holds no token, no token signed by the gateway, a token whose
\* "exp" has passed at t, or one whose "sub" is no user id
BadCredentialAt(cred, t) ==
    \/ cred.kind \in {"missing", "garbage"}
    \/ cred.kind = "jwt" /\ (cred.exp <= t \/ cred.sub \notin UuidStrings)

\* the token is good and names a user the Directory does not hold
UnknownUser(cred, t) ==
    cred.kind = "jwt" /\ cred.exp > t /\ cred.sub \in UuidStrings \ Users

\* C9: the step that resolves a missing, invalid or expired credential ends
\* the request with 401 and no call to a collaborator made (so does a token
\* of an unknown user, once the Directory answered), and a request that has
\* ended takes no further step.
C9_BadCredentialAuthError ==
    [][\A r \in DOMAIN req :
          /\ (req[r].pc = "idle" /\ req'[r].pc # "idle"
                /\ \/ BadCredentialAt(req'[r].cred, clock)
                   \/ UnknownUser(req'[r].cred, clock) /\ req'[r].detail # "database error")
               => /\ req'[r].pc = "done"
                  /\ req'[r].status = 401
                  /\ req'[r].steps = <<>>
                  /\ req'[r].principal = "none"
          /\ req[r].pc = "done" => req'[r] = req[r]]_vars

\* an expired token was presented and the request ended with 401
C9_Witness ==
    \E r \in DOMAIN req :
        /\ req[r].cred.kind = "jwt" /\ req[r].cred.exp <= clock
        /\ Terminal(req[r]) /\ req[r].status = 401 /\ req[r].steps = <<>>

\* C10: a check whose INCR replied more than max_requests ends the request
\* at once with 429 and a Retry-After, its last call being the one to the
\* store: no provider is called for it.
C10_DeniedIsTerminal ==
    \A k \in DOMAIN order : \A p \in 1..Len(order[k]) : \A n \in MaxRequestsOf(k) :
        LET rec == req[order[k][p].r]
        IN (order[k][p].val > n /\ rec.pc # "expire" /\ ~StoreFailed(rec)) =>
              /\ Terminal(rec)
              /\ rec.status = 429
              /\ rec.retry_after > 0
              /\ ~Made(rec, "call_openai")
              /\ rec.steps[Len(rec.steps)] \in {"incr", "expire"}

\* a request was denied while an earlier one of the same window key was
\* sent to the provider
C10_Witness ==
    \E k \in DOMAIN order : \E p, q \in 1..Len(order[k]) :
        /\ req[order[k][p].r].status = 429
        /\ Made(req[order[k][q].r], "call_openai")

\* line 63 on every timestamp and window length of the bounds: the value
\* lies in (0, window_seconds], and now plus the value is the first second
\* of the window after the one of now
RetryAfterReachesNextWindow ==
    \A now \in 0..MaxNow : \A window_seconds \in 1..MaxWindow :
        LET ra == retry_after(now, window_seconds)
        IN /\ ra > 0 /\ ra <= window_seconds
           /\ (now + ra) % window_seconds = 0
           /\ (now + ra) \div window_seconds = (now \div window_seconds) + 1

\* C11: the step that denies a check ends the request with 429 and a
\* Retry-After of window_seconds - (now mod window_seconds), now the
\* timestamp the check took at line 52; and on every now >= 0 and
\* window_seconds >= 1 that value lies in (0, window_seconds] and leads from
\* now to the first second of the next window.
C11_RetryAfter ==
    /\ []RetryAfterReachesNextWindow
    /\ [][\A r \in DOMAIN req :
            LET w == req[r].policy.window_seconds
            IN (req[r].pc \in {"incr", "expire"} /\ req'[r].pc = "done"
                  /\ (req'[r].status = 429 \/ req'[r].retry_after # 0)) =>
                    /\ req'[r].status = 429
                    /\ req'[r].retry_after = w - (req[r].now % w)
                    /\ req'[r].retry_after \in 1..w
                    /\ (req[r].now + req'[r].retry_after) % w = 0]_vars

\* a check was denied in the last second of a window that is not the
\* first one: Retry-After is 1, less than the window length
C11_Witness ==
    \E r \in DOMAIN req :
        /\ req[r].status = 429
        /\ req[r].retry_after = 1
        /\ \E k \in DOMAIN order : r \in Applied(k) /\ k[3] > 0 /\ Len(order[k]) > 1

\* two Directory queries of one process for one (principal, model version)
SamePair(a, b) == a.inst = b.inst /\ a.user = b.user /\ a.mv = b.mv

\* the Directory answered the query: with a policy, or with no row
Answered(q) == q.result \in {"policy", "none"}

\* C12: after a resolution of a process that the Directory answered, with
\* a policy or with none, the same process sends no query for the same
\* (principal, model version) before CACHE_TTL seconds have passed.
C12_NoSecondQueryWithinTtl ==
    \A m, n \in DOMAIN queries :
        (m < n /\ SamePair(queries[m], queries[n]) /\ Answered(queries[m])) =>
            queries[n].at >= queries[m].at + CACHE_TTL

\* the last query a process sent for a (principal, model version)
LastQuery(n) ==
    \A m \in DOMAIN queries : SamePair(queries[m], queries[n]) => m <= n

\* C13: once the Directory has answered a query of a process, with a policy
\* or with none, the cache of the process holds an entry for the
\* (principal, model version), and it expires CACHE_TTL seconds after the
\* last such query.
C13_QueryFillsCache ==
    \A n \in DOMAIN queries :
        (Answered(queries[n]) /\ LastQuery(n)) =>
            LET q == queries[n]
            IN /\ <<q.user, q.mv>> \in DOMAIN cache[q.inst]
               /\ cache[q.inst][<<q.user, q.mv>>].exp = q.at + CACHE_TTL

\* the entry of process i for key has not reached its expires-at at time t
Unexpired(i, key, t) == key \in DOMAIN cache[i] /\ t < cache[i][key].exp

\* C14: the step in which a request gets its policy either sends no query,
\* and then takes the policy of an entry whose expires-at lies after now
\* and leaves the cache as it is; or it sends a query, and then the process
\* held no entry for the pair or one whose expires-at is now or earlier,
\* and the policy the Directory returns is the one the request gets and the
\* one the process holds from then on, with expires-at = now + CACHE_TTL.
C14_ExpiredEntryNeverServed ==
    [][\A r \in DOMAIN req :
          (req[r].pc = "authed" /\ req'[r].pc = "incr") =>
             LET key == <<req'[r].principal, req'[r].mv>>
             IN \/ /\ queries' = queries
                   /\ cache' = cache
                   /\ \E i \in Instances :
                         Unexpired(i, key, clock) /\ req'[r].policy = cache[i][key].policy
                \/ /\ Len(queries') = Len(queries) + 1
                   /\ LET q == queries'[Len(queries')]
                      IN /\ <<q.user, q.mv>> = key /\ q.at = clock /\ q.result = "policy"
                         /\ ~Unexpired(q.inst, key, clock)
                         /\ req'[r].policy = q.policy
                         /\ q.policy \in { p.policy : p \in PermissionRows(key[1], key[2]) }
                         /\ cache'[q.inst][key] = [exp |-> clock + CACHE_TTL, policy |-> q.policy]
                         /\ \A j \in Instances \ {q.inst} : cache'[j] = cache[j]]_vars

\* a process that held a policy for the pair queried the Directory again
\* for a request that came at the expires-at or after, and holds the other
\* policy (of the pair's two) that came back, for CACHE_TTL from then
C14_Witness ==
    \E m, n \in DOMAIN queries :
        /\ m < n /\ SamePair(queries[m], queries[n])
        /\ queries[m].result = "policy" /\ queries[n].result = "policy"
        /\ queries[n].at >= queries[m].at + CACHE_TTL
        /\ queries[m].policy # queries[n].policy
        /\ cache[queries[n].inst][<<queries[n].user, queries[n].mv>>]
              = [exp |-> queries[n].at + CACHE_TTL, policy |-> queries[n].policy]
        /\ \E r \in DOMAIN req : req[r].pc = "incr" /\ req[r].now = queries[n].at

\* rows of two groups of the principal that differ in what they grant
Conflicting(rows) ==
    \E a, b \in rows :
        a.group # b.group /\ (a.allowed # b.allowed \/ a.policy # b.policy)

\* C15: a request of a principal whose groups hold conflicting rows for
\* the model version is never counted by the rate limiter under one of the
\* rows and never reaches the dispatch, and unless the database failed it
\* ends with 403.
C15_ConflictFailsClosed ==
    \A r \in DOMAIN req :
        (Resolved(req[r]) /\ Conflicting(RowsOf(req[r]))) =>
            /\ req[r].pc \notin {"incr", "expire", "upstream"}
            /\ ~ReachedDispatch(req[r])
            /\ (Terminal(req[r]) /\ ~DirectoryFailed(req[r])) => req[r].status = 403

\* the upstream call of the request ended in an httpx exception or in a
\* response whose status is not 2xx
UpstreamFailed(rec) ==
    \E n \in 1..Len(rec.steps) :
        rec.steps[n] \in {"upstream:connect_error", "upstream:timeout",
                          "upstream:3xx", "upstream:4xx", "upstream:5xx"}

\* C16: a request whose upstream call ended in a transport failure, a
\* timeout or a response with a status other than 2xx ends with 502.
C16_UpstreamFailure502 ==
    \A r \in DOMAIN req :
        UpstreamFailed(req[r]) => (Terminal(req[r]) /\ req[r].status = 502)

\* C17: a request whose upstream call came back with a 2xx response ends
\* with 200 and a non-empty output, or with 502: a payload that is
\* malformed or holds no output text never gives an empty output or
\* another status.
C17_MalformedPayload502 ==
    \A r \in DOMAIN req :
        Made(req[r], "upstream:2xx") =>
            /\ Terminal(req[r])
            /\ \/ req[r].status = 200 /\ req[r].output # ""
               \/ req[r].status = 502

\* C18: a request that passed the rate check for a model version whose
\* provider is none ProviderEnum lists ends with 404, with no upstream
\* call made.
C18_UnsupportedProvider404 ==
    \A r \in DOMAIN req :
        ( /\ Resolved(req[r])
          /\ MV(req[r].mv).provider \notin ProviderEnum
          /\ ReachedDispatch(req[r]) ) =>
            /\ Terminal(req[r])
            /\ ~Made(req[r], "call_openai")
            /\ req[r].status = 404

\* C19: a request that passed the rate check for a model version of the
\* provider "internal" is handed to an adapter: it does not end as an
\* unsupported provider.
C19_InternalProviderDispatched ==
    \A r \in DOMAIN req :
        ( /\ Resolved(req[r])
          /\ MV(req[r].mv).provider = "internal"
          /\ Terminal(req[r]) ) => req[r].detail # "Unsupported provider"

\* how many times step occurs in the history of a request
Count(rec, step) == Cardinality({ n \in 1..Len(rec.steps) : rec.steps[n] = step })

UpstreamOutcomes ==
    {"upstream:connect_error", "upstream:timeout", "upstream:2xx", "upstream:3xx",
     "upstream:4xx", "upstream:5xx"}

\* C20: a request sends at most one upstream call and gets at most one
\* answer to it; the answer ends the request, and an answer that is an
\* httpx exception or an error status ends it with an error status.
C20_NoRetry ==
    \A r \in DOMAIN req :
        /\ Count(req[r], "call_openai") <= 1
        /\ Cardinality({ n \in 1..Len(req[r].steps) : req[r].steps[n] \in UpstreamOutcomes }) <= 1
        /\ (\E o \in UpstreamOutcomes : Made(req[r], o)) =>
              /\ Terminal(req[r])
              /\ req[r].steps[Len(req[r].steps)] \in UpstreamOutcomes
              /\ req[r].steps[Len(req[r].steps) - 1] = "call_openai"
        /\ (\E o \in UpstreamOutcomes \ {"upstream:2xx", "upstream:3xx"} : Made(req[r], o)) =>
              req[r].status >= 400

\* an upstream call timed out and the request ended with an error, its one
\* call made
C20_Witness ==
    \E r \in DOMAIN req :
        /\ Made(req[r], "upstream:timeout")
        /\ Count(req[r], "call_openai") = 1
        /\ Terminal(req[r]) /\ req[r].status >= 400

\* C21: a request that has ended has exactly one outcome record in the
\* log, request_completed with the status of the response or
\* request_failed with 500, carrying the id of the principal if
\* require_principal had resolved one; a request that has not ended has
\* none.
C21_OneOutcomeRecord ==
    \A r \in DOMAIN req :
        /\ ~Terminal(req[r]) => req[r].log = <<>>
        /\ Terminal(req[r]) =>
              /\ Len(req[r].log) = 1
              /\ req[r].log[1].event \in {"request_completed", "request_failed"}
              /\ req[r].log[1].status_code = req[r].status
              /\ req[r].log[1].principal_id = req[r].principal
              /\ req[r].cred.kind = "jwt" /\ req[r].cred.sub \in Users /\ req[r].status # 401
                    /\ ~(req[r].detail = "database error" /\ req[r].steps = <<>>)
                    => req[r].log[1].principal_id = req[r].cred.sub

\* a request of a resolved principal ended in an exception nothing handles
\* after its check was counted, and has its one request_failed record
C21_Witness ==
    \E r \in DOMAIN req :
        /\ Terminal(req[r])
        /\ Made(req[r], "expire:error")
        /\ req[r].log = <<[event |-> "request_failed", principal_id |-> "chatbot-service",
                           status_code |-> 500]>>

\* ---------------------------------------------------------------- C22
\* the request r took the step
Stepped(r) == req'[r] # req[r]

\* the counter of key k is not the same after the step (created, counted
\* up, given an expiry or gone)
CounterTouched(k) ==
    \/ (k \in DOMAIN store) # (k \in DOMAIN store')
    \/ k \in DOMAIN store /\ k \in DOMAIN store' /\ store'[k] # store[k]

\* C22: a counter belongs to one (principal, model version, window index):
\* every INCR a counter received came from a check of its own principal for
\* its own model version in its own window, and a step of a request leaves
\* alone every counter but the one of the request's principal, model version
\* and window; so the checks of one pair never move the counter of another
\* caller or of the same caller on another model version.
C22_CountersScopedPerPair ==
    /\ [](\A k \in DOMAIN order : \A p \in 1..Len(order[k]) :
            /\ k[1] = req[order[k][p].r].principal
            /\ k[2] = req[order[k][p].r].mv
            /\ k[3] = order[k][p].w)
    /\ [][\A r \in DOMAIN req : Stepped(r) =>
            \A k \in DOMAIN store \cup DOMAIN store' :
                CounterTouched(k) =>
                    /\ req[r].pc \in {"incr", "expire"}
                    /\ k = <<req[r].principal, req[r].mv,
                             bucket(req[r].now, req[r].policy.window_seconds)>>]_vars

\* two callers and two model versions checked side by side: the counters of
\* one caller on two model versions, or of two callers on one, each at 1
C22_Witness ==
    \E k1 \in DOMAIN store, k2 \in DOMAIN store :
        /\ k1[1] = k2[1] /\ k1[2] # k2[2]
        /\ store[k1].val = 1 /\ store[k2].val = 1
        /\ \E r \in Applied(k1) : Terminal(req[r])
        /\ \E r \in Applied(k2) : Terminal(req[r])

ExpireCalls(k) ==
    { p \in 1..Len(order[k]) : Made(req[order[k][p].r], "expire") }

\* C25: with the store answering every command, the EXPIRE of a key is
\* issued by the check that INCR answered 1 and by no other: a check that
\* was answered more than 1 never issues one, the check answered 1 issues
\* one before enforce_rate_limit returns, so each key gets exactly one; and
\* the expiry of a key is only ever set by that call, to window_seconds + 5
\* from the time of the call.
C25_ExpireSetOnceByFirst ==
    /\ [](\A k \in DOMAIN order :
            /\ \A p \in 1..Len(order[k]) :
                  LET rec == req[order[k][p].r]
                  IN /\ Made(rec, "expire") => order[k][p].val = 1
                     /\ order[k][p].val = 1 /\ rec.pc \in {"upstream", "done"}
                           => Count(rec, "expire") = 1
            /\ Cardinality(ExpireCalls(k)) <= 1
            /\ Cardinality({ p \in 1..Len(order[k]) : order[k][p].val = 1 }) = 1)
    /\ [][\A k \in DOMAIN store' :
            (k \notin DOMAIN store \/ store'[k].ttl # store[k].ttl) /\ store'[k].ttl # -1
                => \E r \in DOMAIN req :
                      /\ Stepped(r)
                      /\ req[r].pc = "expire" /\ req[r].count = 1
                      /\ k = KeyOf(req[r])
                      /\ store[k].ttl = -1
                      /\ store'[k].ttl = clock + req[r].policy.window_seconds + 5]_vars

\* two concurrent checks on one key, both answered: the counter at 2, its
\* expiry set once, by the check that was answered 1
C25_Witness ==
    \E k \in DOMAIN store :
        /\ store[k].val = 2 /\ store[k].ttl = clock + rl_med.window_seconds + 5
        /\ Cardinality(ExpireCalls(k)) = 1
        /\ \A r \in Applied(k) : Terminal(req[r])

\* ---------------------------------------------------------------- C24
\* C24: a check counts on the counter of the window of its own timestamp
\* and on no other, so a counter created in window w is never read by a
\* check of window w + 2 (nor of any other window): the store answers the
\* p-th check of a window with p, the first of them with 1, and the first
\* N checks of every window are allowed whatever the windows before it
\* have counted; and a key whose expiry is reached is absent.
C24_WindowRollover ==
    /\ \A k \in DOMAIN store : store[k].ttl = -1 \/ store[k].ttl > clock
    /\ \A k \in DOMAIN order : \A p \in 1..Len(order[k]) :
          /\ order[k][p].w = k[3]
          /\ order[k][p].val = p
          /\ \A n \in MaxRequestsOf(k) :
                p <= n /\ RateDecided(req[order[k][p].r])
                    => RateAllowed(req[order[k][p].r])

\* the quota of a window used up, its counter expired and gone, and the
\* first check made two windows later answered 1 and completed
C24_Witness ==
    \E k0 \in DOMAIN order, k2 \in DOMAIN order :
        /\ k0[1] = k2[1] /\ k0[2] = k2[2] /\ k2[3] = k0[3] + 2
        /\ \E n \in MaxRequestsOf(k0) : Len(order[k0]) >= n
        /\ k0 \notin DOMAIN store
        /\ order[k2][1].val = 1
        /\ req[order[k2][1].r].status = 200

\* ---------------------------------------------------------------- C26
\* the check that was answered 1 on key k did not get its EXPIRE through
ExpireLost(k) == Made(req[order[k][1].r], "expire:error")

\* C26: when the EXPIRE of the check that was answered 1 is lost, the key
\* stays in the store without an expiry from then on, however much time
\* passes: the checks that follow on the key are answered more than 1 and
\* issue no EXPIRE, and the counter keeps every increment.
C26_LostExpireLeavesKeyForever ==
    \A k \in DOMAIN order :
        ExpireLost(k) =>
            /\ k \in DOMAIN store
            /\ store[k].ttl = -1
            /\ store[k].val = Len(order[k])
            /\ \A p \in 2..Len(order[k]) :
                  /\ order[k][p].val > 1
                  /\ ~Made(req[order[k][p].r], "expire")

\* the EXPIRE of a window's first check lost, a second check counted on the
\* key, and the key still there, without expiry, when an expiry set in the
\* window's first second would have fired
C26_Witness ==
    \E k \in DOMAIN order :
        /\ ExpireLost(k)
        /\ Len(order[k]) = 2 /\ Terminal(req[order[k][2].r])
        /\ k \in DOMAIN store /\ store[k].val = 2 /\ store[k].ttl = -1
        /\ clock >= k[3] * rl_med.window_seconds + expire_seconds(rl_med.window_seconds)

\* ---------------------------------------------------------------- C27
\* the responses a request ends with
TerminalStatus == {200, 400, 401, 404, 429, 500, 502}

\* C27: a request that has arrived ends: it reaches the state "done" with
\* one response status and one outcome record, and from then on no step
\* changes anything of it.
C27_EveryRequestTerminates ==
    /\ \A r \in 1..NumLive : (req[r].pc # "idle") ~> Terminal(req[r])
    /\ [](\A r \in DOMAIN req :
            Terminal(req[r]) => req[r].status \in TerminalStatus /\ Len(req[r].log) = 1)
    /\ [][\A r \in DOMAIN req : Terminal(req[r]) => req'[r] = req[r]]_vars

\* every request has ended, one of them after its upstream call found no
\* connection
C27_Witness ==
    /\ \A r \in DOMAIN req : Terminal(req[r])
    /\ \E r \in DOMAIN req : Made(req[r], "upstream:connect_error") /\ req[r].status = 500

\* ---------------------------------------------------------------- C28
\* the checks made for the pair and in the window of key k: the requests of
\* that principal for that model version whose INCR went out in that window
ChecksOn(k) ==
    { r \in DOMAIN req :
        /\ Made(req[r], "incr")
        /\ req[r].principal = k[1] /\ req[r].mv = k[2]
        /\ \E p \in 1..Len(order[k]) : order[k][p].r = r /\ order[k][p].w = k[3] }

\* C28: every check counts, the denied ones too: a request that made its
\* check is among the checks of some key, and as long as a key is in the
\* store its value is the number of checks made for its pair in its window;
\* a step never lowers a counter, and a key leaves the store only when the
\* store expires it, never by a step of a request.
C28_CounterCountsEveryCheck ==
    /\ [](\A r \in DOMAIN req :
            Made(req[r], "incr") => \E k \in DOMAIN order : r \in ChecksOn(k))
    /\ [](\A k \in DOMAIN store : store[k].val = Cardinality(ChecksOn(k)))
    /\ [][\A k \in DOMAIN store :
            IF k \in DOMAIN store'
            THEN store'[k].val >= store[k].val
            ELSE /\ store[k].ttl # -1 /\ store[k].ttl <= clock'
                 /\ req' = req]_vars

\* three checks in one window of limit 2: two allowed, one denied, and the
\* counter at 3
C28_Witness ==
    \E k \in DOMAIN store :
        /\ store[k].val = 3
        /\ Cardinality({ r \in ChecksOn(k) : req[r].status = 429 }) = 1
        /\ Cardinality({ r \in ChecksOn(k) : req[r].status = 200 }) = 2

\* ---------------------------------------------------------------- C29
\* the window lengths the Directory holds for the pair a key belongs to
WindowSecondsOf(k) ==
    { p.policy.window_seconds :
        p \in { q \in PermissionRows(k[1], k[2]) : q.policy # NoPolicy } }

\* C29: the expiry of a counter lies after the end of its window: when the
\* EXPIRE of the first check sets it, it is set from a time within or after
\* the window to window_seconds + 5 later, so the expiry of a key of window
\* w is greater than (w + 1) * window_seconds; and the store drops a key
\* only at a time after its window has ended.
C29_NoEarlyExpiry ==
    /\ [](\A k \in DOMAIN store : \A ws \in WindowSecondsOf(k) :
            store[k].ttl # -1 => store[k].ttl > (k[3] + 1) * ws)
    /\ [][\A k \in DOMAIN store : \A ws \in WindowSecondsOf(k) :
            /\ k \notin DOMAIN store' => clock' > (k[3] + 1) * ws
            /\ k \in DOMAIN store' /\ store'[k].ttl # store[k].ttl
                  => /\ clock >= k[3] * ws
                     /\ store'[k].ttl = clock + ws + EXPIRE_BUFFER]_vars

\* a counter whose expiry was set in the first second of its window, gone
\* at the second of that expiry
C29_Witness ==
    \E k \in DOMAIN order : \E ws \in WindowSecondsOf(k) :
        /\ Made(req[order[k][1].r], "expire")
        /\ k \notin DOMAIN store
        /\ clock = k[3] * ws + ws + EXPIRE_BUFFER

\* ---------------------------------------------------------------- C30
\* the request passed the rate-limit check and failed at the dispatch
FailedAtDispatch(rec) ==
    /\ Terminal(rec)
    /\ ReachedDispatch(rec)
    /\ rec.status # 200

\* C30: a request that passed the rate-limit check and then failed at the
\* dispatch (a provider with no adapter, a provider account without API
\* key, an upstream error) has its increment on the counter of its
\* window, and the counter still holds it: the value in the store is the
\* number of increments applied, the failed request's among them.
C30_FailedDispatchStillCounted ==
    \A r \in DOMAIN req :
        FailedAtDispatch(req[r]) =>
            \E k \in DOMAIN store :
                /\ k[1] = req[r].principal /\ k[2] = req[r].mv
                /\ r \in Applied(k)
                /\ store[k].val = Len(order[k])
                /\ store[k].val >= 1

\* a request allowed by the limiter and ended by the provider account's
\* missing API key, its unit still on the counter
C30_Witness ==
    \E r \in DOMAIN req : \E k \in DOMAIN store :
        /\ FailedAtDispatch(req[r])
        /\ req[r].detail = "ProviderAccount.api_key is missing for OpenAI"
        /\ r \in Applied(k)
        /\ store[k].val = 1

\* ---------------------------------------------------------------- C31
\* the request is past get_policy_cached and holds the policy it got there
HoldsPolicy(rec) == rec.pc \in {"incr", "expire", "upstream"}

\* the Directory's answer n is the policy of the request, given for its
\* (principal, model version) less than CACHE_TTL before the request's now
AnswerInUse(n, rec) ==
    /\ queries[n].user = rec.principal /\ queries[n].mv = rec.mv
    /\ queries[n].result = "policy"
    /\ queries[n].policy = rec.policy
    /\ rec.now - CACHE_TTL < queries[n].at
    /\ queries[n].at <= rec.now

\* C31: the policy a request is checked against at time t (its now) is one
\* the Directory returned to a query for its (principal, model version)
\* made in (t - CACHE_TTL, t]: what the Directory held CACHE_TTL seconds
\* ago or earlier, and has changed since, is applied to no request.
C31_StalenessBoundedByTtl ==
    \A r \in DOMAIN req :
        HoldsPolicy(req[r]) => \E n \in DOMAIN queries : AnswerInUse(n, req[r])

\* a request checked, at the last second of the entry's life, against the
\* policy the Directory returned CACHE_TTL - 1 seconds before
C31_Witness ==
    \E r \in DOMAIN req :
        /\ HoldsPolicy(req[r])
        /\ req[r].now = CACHE_TTL - 1
        /\ Len(queries) = 1 /\ queries[1].at = 0
        /\ AnswerInUse(1, req[r])

====
